---- MODULE Spec2Model ----
(***************************************************************************)
(* alarm_mutex2.c: one producer (main) and one consumer (alarm_thread)     *)
(* share a singly linked list of alarm requests, sorted by expiration      *)
(* time and protected by alarm_mutex.                                      *)
(*                                                                         *)
(* The model follows alarm_thread (lines 34-87) and the first, complete    *)
(* main (lines 90-157), one action per statement group, so that the two    *)
(* threads interleave at every lock, unlock, sleep and loop iteration.     *)
(*                                                                         *)
(* An alarm is identified by the serial number of its request among the    *)
(* requests that parsed (1..MaxAlarms); a pointer is an alarm id or NULL.  *)
(* The alarm_t of a line that does not parse is allocated and freed inside *)
(* one step of main and its block is the one the next malloc returns.      *)
(* The wall clock is the variable clock, advanced by Tick; a sleep() in    *)
(* progress counts the ticks it still has to see.                          *)
(*                                                                         *)
(* Line 54 assigns the name sleet_time, not sleep_time: sleep_time keeps   *)
(* the value it had (at first the uninitialised one) when the list is      *)
(* found empty.  Line 62 is modelled as written, now - alarm->time.        *)
(***************************************************************************)
EXTENDS Integers, Sequences, FiniteSets, TLC

\* ------------------------------------------------------------------ bounds
MaxAlarms == 2      \* alarm requests accepted
MaxTime   == 1      \* the clock saturates here

\* ------------------------------------------------------- program constants
NULL == 0
MsgWidth == 64

\* char message[64] of alarm_t: the bytes of the message field
MsgCapacity == 64

AlarmIds == 1..MaxAlarms
HEAD == 0                       \* the address &alarm_list, as a value of `last'
NOBODY == "unlocked"            \* alarm_mutex owner when the mutex is free

\* ----------------------------------------------------------------- input
Digits == {"0", "1", "2"}
NL     == "\n"

\* The lines fgets delivers: "x" stands for any character that is neither a
\* digit, a sign nor white space.
Lines ==
    { <<NL>>,                           \* blank
      <<" ", NL>>,                      \* white space only
      <<"x", "x", "x", NL>>,            \* no delay
      <<"-", " ", "x", NL>>,            \* a sign without digits
      <<"1", NL>>,                      \* a delay without a message
      <<"2", " ", NL>>,                 \* a delay and white space
      <<"0", " ", "x", NL>>,
      <<"1", " ", "x", "x", NL>>,
      <<" ", "1", "x", NL>>,
      <<"2", " ", " ", "x", " ", "x", NL>>,
      <<"-", "1", " ", "x", NL>> }

\* The shorter input of the runs that check progress.
FewLines ==
    { <<NL>>,
      <<"x", "x", "x", NL>>,
      <<"0", " ", "x", NL>>,
      <<"1", " ", "x", "x", NL>> }

IsSpace(c) == c \in {" ", NL}
IsDigit(c) == c \in Digits
DigitVal(c) == IF c = "2" THEN 2 ELSE IF c = "1" THEN 1 ELSE 0

\* k message characters
Xs(k) == [i \in 1..k |-> "x"]

\* Lines "0 xx...x\n" whose message is one short of, equal to and one over
\* the field width of the format, and a short one.
LongLines ==
    { <<"0", " ">> \o Xs(k) \o <<NL>> : k \in {1, MsgWidth - 1, MsgWidth, MsgWidth + 1} }

\* strlen(line)
Strlen(s) == Len(s)

\* index of the first character at or after i that is not white space (Len(s)+1 if none)
RECURSIVE SkipSpace(_, _)
SkipSpace(s, i) ==
    IF i <= Len(s) /\ IsSpace(s[i]) THEN SkipSpace(s, i + 1) ELSE i

\* index of the first character at or after i that is not a digit
RECURSIVE SkipDigits(_, _)
SkipDigits(s, i) ==
    IF i <= Len(s) /\ IsDigit(s[i]) THEN SkipDigits(s, i + 1) ELSE i

\* decimal value of the digits s[i..j-1], acc being the value read so far
RECURSIVE Decimal(_, _, _, _)
Decimal(s, i, j, acc) ==
    IF i >= j THEN acc ELSE Decimal(s, i + 1, j, 10 * acc + DigitVal(s[i]))

\* index of the first character at or after i that is a newline, at most w further on
RECURSIVE ScanSet(_, _, _)
ScanSet(s, i, w) ==
    IF w > 0 /\ i <= Len(s) /\ s[i] # NL THEN ScanSet(s, i + 1, w - 1) ELSE i

\* sscanf(line, "%d %64[^\n]", &seconds, message): the number of conversions
\* stored (-1 is EOF), the seconds and the message.
Sscanf(s) ==
    LET i1 == SkipSpace(s, 1)
        neg == i1 <= Len(s) /\ s[i1] = "-"
        i2 == IF neg THEN i1 + 1 ELSE i1
        i3 == SkipDigits(s, i2)
        val == Decimal(s, i2, i3, 0)
        i4 == SkipSpace(s, i3)
        i5 == ScanSet(s, i4, MsgWidth)
    IN  IF i1 > Len(s) THEN [n |-> -1, seconds |-> 0, message |-> <<>>]
        ELSE IF i3 = i2 THEN [n |-> 0, seconds |-> 0, message |-> <<>>]
        ELSE IF i5 = i4
             THEN [n |-> 1, seconds |-> IF neg THEN -val ELSE val, message |-> <<>>]
        ELSE [n |-> 2, seconds |-> IF neg THEN -val ELSE val,
              message |-> SubSeq(s, i4, i5 - 1)]

\* ----------------------------------------------------------------- state
VARIABLES
    alarm_list,     \* head of the list: an alarm id or NULL
    link,           \* alarm->link of every alarm
    time,           \* alarm->time of every alarm
    seconds,        \* alarm->seconds of every alarm
    message,        \* alarm->message of every alarm, without its terminator
    alarm_mutex,    \* owner of the mutex: NOBODY, "alarm_thread" or "main"
    clock,          \* what time(NULL) returns
    proc,           \* "running", "exited" (exit(0)) or "aborted" (errno_abort)
    heap,           \* alarms allocated and not freed
    nalloc,         \* alarm requests accepted so far
    t_pc,           \* alarm_thread: position
    t_alarm,        \* alarm_thread: alarm
    sleep_time,     \* alarm_thread: sleep_time
    sleet_time,     \* alarm_thread: the name line 54 assigns
    now,            \* alarm_thread: now
    sleep_left,     \* alarm_thread: seconds of the current sleep() still to pass
    m_pc,           \* main: position
    m_alarm,        \* main: alarm
    last,           \* main: last (HEAD for &alarm_list, an id for &id->link)
    next,           \* main: next
    line,           \* main: line, between fgets and sscanf
    report,         \* what handling the latest line wrote to stderr
    dequeued,       \* alarms in the order alarm_thread unlinked them
    fired,          \* alarms in the order alarm_thread printed them
    goneAtInsert,   \* per alarm, the alarms already unlinked when it was linked
    failed_call     \* the mutex calls that have returned an error

shared == <<alarm_list, link, time, seconds, message, alarm_mutex, clock, proc, heap, nalloc>>
tvars  == <<t_pc, t_alarm, sleep_time, sleet_time, now, sleep_left>>
mvars  == <<m_pc, m_alarm, last, next, line, report>>
hist   == <<dequeued, fired, goneAtInsert, failed_call>>
vars   == <<shared, tvars, mvars, hist>>

Max(a, b) == IF a >= b THEN a ELSE b
Min(a, b) == IF a <= b THEN a ELSE b
Range(s) == {s[i] : i \in 1..Len(s)}

\* the alarms reachable from alarm_list, in list order (at most n of them)
RECURSIVE Chain(_, _, _)
Chain(p, lk, n) ==
    IF p = NULL \/ n = 0 THEN <<>> ELSE <<p>> \o Chain(lk[p], lk, n - 1)

List == Chain(alarm_list, link, MaxAlarms + 1)

\* values an uninitialised int may hold when first read
Garbage == {0, 1}

Init ==
    /\ alarm_list = NULL
    /\ link = [a \in AlarmIds |-> NULL]
    /\ time = [a \in AlarmIds |-> 0]
    /\ seconds = [a \in AlarmIds |-> 0]
    /\ message = [a \in AlarmIds |-> <<>>]
    /\ alarm_mutex = NOBODY
    /\ clock = 0
    /\ proc = "running"
    /\ heap = {}
    /\ nalloc = 0
    /\ t_pc = "lock"
    /\ t_alarm = NULL
    /\ sleep_time \in Garbage
    /\ sleet_time = 0
    /\ now = 0
    /\ sleep_left = 0
    /\ m_pc = "fgets"
    /\ m_alarm = NULL
    /\ last = HEAD
    /\ next = NULL
    /\ line = <<>>
    /\ report = "none"
    /\ dequeued = <<>>
    /\ fired = <<>>
    /\ goneAtInsert = [a \in AlarmIds |-> {}]
    /\ failed_call = {}

\* ---------------------------------------------------------- alarm_thread
\* an unlock that leaves the mutex with its owner
MutexUnlock_Noop(who) == who

\* a lock that returns without taking the mutex
MutexLock_Free(who) == NOBODY

\* pthread_mutex_lock / pthread_mutex_unlock on a free / owned mutex
MutexLock(who) == who
MutexUnlock(who) == NOBODY

\* a wait of one second for an alarm that is due
SleepTime_DueSleeps(t, n) == IF t <= n THEN 1 ELSE n - t

\* lines 59-62
SleepTime(t, n) == IF t <= n THEN 0 ELSE n - t

\* a removal that leaves the head where it is
RemoveFirst_KeepsHead(a) == a

\* a removal that drops the whole list
RemoveFirst_Empties(a) == NULL

\* a removal that unlinks the first two items
RemoveFirst_SkipsOne(a) == IF link[a] = NULL THEN NULL ELSE link[link[a]]

\* line 57: the list head after the first item is removed
RemoveFirst(a) == link[a]

\* lines 43-45
TLock ==
    /\ proc = "running" /\ t_pc = "lock"
    /\ alarm_mutex = NOBODY
    /\ alarm_mutex' = MutexLock("alarm_thread")
    /\ t_pc' = "peek"
    /\ UNCHANGED <<alarm_list, link, time, seconds, message, clock, proc, heap, nalloc>>
    /\ UNCHANGED <<t_alarm, sleep_time, sleet_time, now, sleep_left>>
    /\ UNCHANGED <<mvars, hist>>

\* line 46
TPeek ==
    /\ proc = "running" /\ t_pc = "peek"
    /\ t_alarm' = alarm_list
    /\ t_pc' = "take"
    /\ UNCHANGED <<shared, sleep_time, sleet_time, now, sleep_left, mvars, hist>>

\* lines 53-63
TTake ==
    /\ proc = "running" /\ t_pc = "take"
    /\ IF t_alarm = NULL
       THEN /\ sleet_time' = 1
            /\ UNCHANGED <<alarm_list, now, sleep_time, dequeued>>
       ELSE /\ alarm_list' = RemoveFirst(t_alarm)
            /\ now' = clock
            /\ sleep_time' = SleepTime(time[t_alarm], clock)
            /\ dequeued' = Append(dequeued, t_alarm)
            /\ UNCHANGED sleet_time
    /\ t_pc' = "unlock"
    /\ UNCHANGED <<link, time, seconds, message, alarm_mutex, clock, proc, heap, nalloc>>
    /\ UNCHANGED <<t_alarm, sleep_left, mvars, fired, goneAtInsert, failed_call>>

\* alarm_thread leaving its critical section without the unlock (a mutation,
\* not the program)
TUnlock_KeepsLock ==
    /\ proc = "running" /\ t_pc = "unlock"
    /\ t_pc' = "wait"
    /\ UNCHANGED <<shared, t_alarm, sleep_time, sleet_time, now, sleep_left>>
    /\ UNCHANGED <<mvars, hist>>

\* lines 70-72
TUnlock ==
    /\ proc = "running" /\ t_pc = "unlock"
    /\ alarm_mutex' = MutexUnlock("alarm_thread")
    /\ t_pc' = "wait"
    /\ UNCHANGED <<alarm_list, link, time, seconds, message, clock, proc, heap, nalloc>>
    /\ UNCHANGED <<t_alarm, sleep_time, sleet_time, now, sleep_left>>
    /\ UNCHANGED <<mvars, hist>>

\* lines 74-75: sleep(sleep_time) is entered
TSleep ==
    /\ proc = "running" /\ t_pc = "wait"
    /\ sleep_time > 0
    /\ sleep_left' = sleep_time
    /\ t_pc' = "sleeping"
    /\ UNCHANGED <<shared, t_alarm, sleep_time, sleet_time, now, mvars, hist>>

\* line 75: sleep returns once its seconds have passed
TWake ==
    /\ proc = "running" /\ t_pc = "sleeping"
    /\ sleep_left = 0
    /\ t_pc' = "fire"
    /\ UNCHANGED <<shared, t_alarm, sleep_time, sleet_time, now, sleep_left, mvars, hist>>

\* a yield that goes back to the top of the loop
TYield_Abandon ==
    /\ proc = "running" /\ t_pc = "wait"
    /\ ~(sleep_time > 0)
    /\ t_pc' = "lock"
    /\ UNCHANGED <<shared, t_alarm, sleep_time, sleet_time, now, sleep_left, mvars, hist>>

\* lines 76-77: sched_yield()
TYield ==
    /\ proc = "running" /\ t_pc = "wait"
    /\ ~(sleep_time > 0)
    /\ t_pc' = "fire"
    /\ UNCHANGED <<shared, t_alarm, sleep_time, sleet_time, now, sleep_left, mvars, hist>>

\* lines 80-86
TFire ==
    /\ proc = "running" /\ t_pc = "fire"
    /\ IF t_alarm # NULL
       THEN /\ fired' = Append(fired, t_alarm)
            /\ heap' = heap \ {t_alarm}
       ELSE UNCHANGED <<fired, heap>>
    /\ t_pc' = "lock"
    /\ UNCHANGED <<alarm_list, link, time, seconds, message, alarm_mutex, clock, proc, nalloc>>
    /\ UNCHANGED <<t_alarm, sleep_time, sleet_time, now, sleep_left>>
    /\ UNCHANGED <<mvars, dequeued, goneAtInsert, failed_call>>

\* ------------------------------------------------------------------ main
\* *last, for last = &alarm_list or last = &a->link
Deref(p) == IF p = HEAD THEN alarm_list ELSE link[p]

\* a scan with the comparison turned round
ScanStop_Inverted(nextTime, alarmTime) == nextTime <= alarmTime

\* a scan that passes the alarms of equal time
ScanStop_Strict(nextTime, alarmTime) == nextTime > alarmTime

\* line 136: the scan stops at the first alarm whose time is not earlier
ScanStop(nextTime, alarmTime) == nextTime >= alarmTime

\* line 129
Deadline(n, s) == n + s

\* a test that accepts a line with a delay and no message
BadCommand_OffByOne(n) == n < 1

\* line 118: the test that sends a line to "bad command"
BadCommand(n) == n < 2

\* lines 104-105: fgets returns NULL at end of input and main calls exit(0)
MEof ==
    /\ proc = "running" /\ m_pc = "fgets"
    /\ proc' = "exited"
    /\ UNCHANGED <<alarm_list, link, time, seconds, message, alarm_mutex, clock, heap, nalloc>>
    /\ UNCHANGED <<tvars, mvars, hist>>

\* lines 103-108: fgets delivers a line of the input L; one of strlen <= 1 is skipped
Fgets(L) ==
    /\ proc = "running" /\ m_pc = "fgets"
    /\ \E l \in L :
          IF Strlen(l) <= 1
          THEN /\ report' = "none"
               /\ UNCHANGED <<m_pc, line>>
          ELSE /\ nalloc < MaxAlarms
               /\ line' = l
               /\ m_pc' = "parse"
               /\ UNCHANGED report
    /\ UNCHANGED <<shared, tvars, m_alarm, last, next, hist>>

MFgets == Fgets(Lines)

MFgetsFew == Fgets(FewLines)

MFgetsLong == Fgets(LongLines)

\* lines 110-112: malloc returns NULL and main calls errno_abort
MNoMemory ==
    /\ proc = "running" /\ m_pc = "parse"
    /\ proc' = "aborted"
    /\ UNCHANGED <<alarm_list, link, time, seconds, message, alarm_mutex, clock, heap, nalloc>>
    /\ UNCHANGED <<tvars, mvars, hist>>

\* lines 110-123: malloc, sscanf, and the free of a line that does not parse
MParse ==
    /\ proc = "running" /\ m_pc = "parse"
    /\ LET a == nalloc + 1
           r == Sscanf(line)
       IN  /\ m_alarm' = a
           /\ IF BadCommand(r.n)
              THEN /\ report' = "bad command"
                   /\ m_pc' = "fgets"
                   /\ UNCHANGED <<heap, nalloc, seconds, message>>
              ELSE /\ report' = "none"
                   /\ seconds' = [seconds EXCEPT ![a] = r.seconds]
                   /\ message' = [message EXCEPT ![a] = r.message]
                   /\ heap' = heap \cup {a}
                   /\ nalloc' = a
                   /\ m_pc' = "lock"
    /\ line' = <<>>
    /\ UNCHANGED <<alarm_list, link, time, alarm_mutex, clock, proc>>
    /\ UNCHANGED <<tvars, last, next, hist>>

\* lines 125-127
MLock ==
    /\ proc = "running" /\ m_pc = "lock"
    /\ alarm_mutex = NOBODY
    /\ alarm_mutex' = MutexLock("main")
    /\ m_pc' = "settime"
    /\ UNCHANGED <<alarm_list, link, time, seconds, message, clock, proc, heap, nalloc>>
    /\ UNCHANGED <<tvars, m_alarm, last, next, line, report, hist>>

\* lines 129-133
MSetTime ==
    /\ proc = "running" /\ m_pc = "settime"
    /\ time' = [time EXCEPT ![m_alarm] = Deadline(clock, seconds[m_alarm])]
    /\ last' = HEAD
    /\ next' = alarm_list
    /\ m_pc' = "scan"
    /\ UNCHANGED <<alarm_list, link, seconds, message, alarm_mutex, clock, proc, heap, nalloc>>
    /\ UNCHANGED <<tvars, m_alarm, line, report, hist>>

\* lines 134-144: one test of the while condition and, if it holds, one pass of the body
MScan ==
    /\ proc = "running" /\ m_pc = "scan"
    /\ IF next = NULL
       THEN /\ m_pc' = "tail"
            /\ UNCHANGED <<alarm_list, link, last, next, goneAtInsert>>
       ELSE IF ScanStop(time[next], time[m_alarm])
       THEN /\ IF last = HEAD
               THEN /\ alarm_list' = m_alarm
                    /\ link' = [link EXCEPT ![m_alarm] = next]
               ELSE /\ link' = [link EXCEPT ![m_alarm] = next, ![last] = m_alarm]
                    /\ UNCHANGED alarm_list
            /\ goneAtInsert' = [goneAtInsert EXCEPT ![m_alarm] = Range(dequeued)]
            /\ m_pc' = "tail"
            /\ UNCHANGED <<last, next>>
       ELSE /\ last' = next
            /\ next' = link[next]
            /\ UNCHANGED <<alarm_list, link, m_pc, goneAtInsert>>
    /\ UNCHANGED <<time, seconds, message, alarm_mutex, clock, proc, heap, nalloc>>
    /\ UNCHANGED <<tvars, m_alarm, line, report>>
    /\ UNCHANGED <<dequeued, fired, failed_call>>

\* an append that makes the new alarm the whole list
MTail_DropsList ==
    /\ proc = "running" /\ m_pc = "tail"
    /\ IF next = NULL
       THEN /\ alarm_list' = m_alarm
            /\ link' = [link EXCEPT ![m_alarm] = NULL]
            /\ goneAtInsert' = [goneAtInsert EXCEPT ![m_alarm] = Range(dequeued)]
       ELSE UNCHANGED <<alarm_list, link, goneAtInsert>>
    /\ m_pc' = "unlock"
    /\ UNCHANGED <<time, seconds, message, alarm_mutex, clock, proc, heap, nalloc>>
    /\ UNCHANGED <<tvars, m_alarm, last, next, line, report>>
    /\ UNCHANGED <<dequeued, fired, failed_call>>

\* an append that links the new alarm at the head of the list
MTail_AtHead ==
    /\ proc = "running" /\ m_pc = "tail"
    /\ IF next = NULL
       THEN /\ alarm_list' = m_alarm
            /\ link' = [link EXCEPT ![m_alarm] = alarm_list]
            /\ goneAtInsert' = [goneAtInsert EXCEPT ![m_alarm] = Range(dequeued)]
       ELSE UNCHANGED <<alarm_list, link, goneAtInsert>>
    /\ m_pc' = "unlock"
    /\ UNCHANGED <<time, seconds, message, alarm_mutex, clock, proc, heap, nalloc>>
    /\ UNCHANGED <<tvars, m_alarm, last, next, line, report>>
    /\ UNCHANGED <<dequeued, fired, failed_call>>

\* lines 146-151
MTail ==
    /\ proc = "running" /\ m_pc = "tail"
    /\ IF next = NULL
       THEN /\ IF last = HEAD
               THEN /\ alarm_list' = m_alarm
                    /\ link' = [link EXCEPT ![m_alarm] = NULL]
               ELSE /\ link' = [link EXCEPT ![last] = m_alarm, ![m_alarm] = NULL]
                    /\ UNCHANGED alarm_list
            /\ goneAtInsert' = [goneAtInsert EXCEPT ![m_alarm] = Range(dequeued)]
       ELSE UNCHANGED <<alarm_list, link, goneAtInsert>>
    /\ m_pc' = "unlock"
    /\ UNCHANGED <<time, seconds, message, alarm_mutex, clock, proc, heap, nalloc>>
    /\ UNCHANGED <<tvars, m_alarm, last, next, line, report>>
    /\ UNCHANGED <<dequeued, fired, failed_call>>

\* line 153
MUnlock ==
    /\ proc = "running" /\ m_pc = "unlock"
    /\ alarm_mutex' = MutexUnlock("main")
    /\ m_pc' = "fgets"
    /\ UNCHANGED <<alarm_list, link, time, seconds, message, clock, proc, heap, nalloc>>
    /\ UNCHANGED <<tvars, m_alarm, last, next, line, report, hist>>

\* ----------------------------------------------------------------- clock
\* One second passes: time(NULL) grows (up to MaxTime) and a sleep in progress
\* has one second less to go.
Tick ==
    /\ proc = "running"
    /\ clock < MaxTime \/ sleep_left > 0
    /\ clock' = Min(clock + 1, MaxTime)
    /\ sleep_left' = Max(sleep_left - 1, 0)
    /\ UNCHANGED <<alarm_list, link, time, seconds, message, alarm_mutex, proc, heap, nalloc>>
    /\ UNCHANGED <<t_pc, t_alarm, sleep_time, sleet_time, now, mvars, hist>>

Thread == TLock \/ TPeek \/ TTake \/ TUnlock \/ TSleep \/ TWake \/ TYield \/ TFire

\* main between its lock and its unlock
MInsert == MLock \/ MSetTime \/ MScan \/ MTail \/ MUnlock

Main == MEof \/ MFgets \/ MNoMemory \/ MParse \/ MInsert

MainFew == MEof \/ MFgetsFew \/ MNoMemory \/ MParse \/ MInsert

MainLong == MEof \/ MFgetsLong \/ MNoMemory \/ MParse \/ MInsert

Next == Thread \/ Main \/ Tick

Spec == Init /\ [][Next]_vars

NextFew == Thread \/ MainFew \/ Tick

NextLong == Thread \/ MainLong \/ Tick

\* The program reading lines with long messages.
LongSpec == Init /\ [][NextLong]_vars

\* Both threads are scheduled and time passes; main may wait for input for ever.
LiveSpec ==
    Init /\ [][NextFew]_vars /\ WF_vars(Thread) /\ WF_vars(MInsert) /\ WF_vars(Tick)

\* Both threads are scheduled, and a thread that finds the mutex free again
\* and again gets it in the end: alarm_thread gives up the processor (sleep or
\* sched_yield, lines 74-77) after every unlock, before it locks again.
FairSpec ==
    Init /\ [][NextFew]_vars /\ WF_vars(Thread) /\ SF_vars(MLock)

\* ------------------------------------------------ failing mutex calls
\* A pthread_mutex_lock or pthread_mutex_unlock that returns an error leaves
\* the mutex as it was.

\* lines 43-45: the lock returns an error and alarm_thread calls err_abort
TLockFails ==
    /\ proc = "running" /\ t_pc = "lock"
    /\ failed_call' = failed_call \cup {"alarm_thread lock"}
    /\ proc' = "aborted"
    /\ UNCHANGED <<alarm_list, link, time, seconds, message, alarm_mutex, clock, heap, nalloc>>
    /\ UNCHANGED <<tvars, mvars, dequeued, fired, goneAtInsert>>

\* lines 70-72: the unlock returns an error and alarm_thread calls err_abort
TUnlockFails ==
    /\ proc = "running" /\ t_pc = "unlock"
    /\ failed_call' = failed_call \cup {"alarm_thread unlock"}
    /\ proc' = "aborted"
    /\ UNCHANGED <<alarm_list, link, time, seconds, message, alarm_mutex, clock, heap, nalloc>>
    /\ UNCHANGED <<tvars, mvars, dequeued, fired, goneAtInsert>>

\* lines 125-127: the lock returns an error and main calls err_abort
MLockFails ==
    /\ proc = "running" /\ m_pc = "lock"
    /\ failed_call' = failed_call \cup {"main lock"}
    /\ proc' = "aborted"
    /\ UNCHANGED <<alarm_list, link, time, seconds, message, alarm_mutex, clock, heap, nalloc>>
    /\ UNCHANGED <<tvars, mvars, dequeued, fired, goneAtInsert>>

\* line 153: the unlock returns an error; its result is not looked at and
\* main goes on to the next line of input
MUnlockFails ==
    /\ proc = "running" /\ m_pc = "unlock"
    /\ failed_call' = failed_call \cup {"main unlock"}
    /\ m_pc' = "fgets"
    /\ UNCHANGED <<shared, tvars, m_alarm, last, next, line, report>>
    /\ UNCHANGED <<dequeued, fired, goneAtInsert>>

Faults == TLockFails \/ TUnlockFails \/ MLockFails \/ MUnlockFails

NextFault == Thread \/ Main \/ Tick \/ Faults

\* The program with mutex calls that may fail.
FaultSpec == Init /\ [][NextFault]_vars

\* ---------------------------------------------------------------- claims
InList(a) == a \in Range(List)
Pos(a) == CHOOSE i \in 1..Len(List) : List[i] = a

\* alarm_thread has unlinked a and has not yet printed it
Held(a) == t_alarm = a /\ t_pc \in {"unlock", "wait", "sleeping", "fire"}

\* a was printed and freed
Fired(a) == a \in Range(fired) /\ a \notin heap

\* main has linked a into the list at some time
Inserted(a) ==
    /\ a <= nalloc
    /\ ~(a = m_alarm /\ m_pc \in {"lock", "settime", "scan"})
    /\ ~(a = m_alarm /\ m_pc = "tail" /\ next = NULL)

NoDuplicates(q) == \A i, j \in 1..Len(q) : i # j => q[i] # q[j]

SortedByTime(q) == \A i, j \in 1..Len(q) : i < j => time[q[i]] <= time[q[j]]

\* C1: whenever neither thread holds alarm_mutex, the list is sorted in
\* non-decreasing order of alarm->time.
C1_SortedWhenUnlocked == alarm_mutex = NOBODY => SortedByTime(List)

C1_Witness ==
    /\ alarm_mutex = NOBODY
    /\ Len(List) = MaxAlarms
    /\ time[List[1]] < time[List[2]]
    /\ List[1] = 2

\* C2: under fair scheduling every alarm linked into the list is eventually
\* printed, unless the process ends first; no alarm is printed twice, and an
\* inserted alarm is in the list or with the consumer until it is printed.
C2_FiresExactlyOnce ==
    /\ \A a \in AlarmIds : InList(a) ~> (a \in Range(fired) \/ proc # "running")
    /\ [](NoDuplicates(fired))
    /\ [](\A a \in AlarmIds :
             (Inserted(a) /\ a \notin Range(fired)) => (InList(a) \/ Held(a)))

C2_Witness ==
    /\ proc = "running"
    /\ Len(fired) = MaxAlarms
    /\ fired[1] = 2

\* C3: every inserted alarm is in exactly one of: the list, the consumer's
\* hands (unlinked, not yet printed), printed and freed.  The list holds no
\* alarm twice and no freed alarm.
C3_ExactlyOnePlace ==
    /\ \A a \in AlarmIds :
          Inserted(a) =>
             /\ InList(a) \/ Held(a) \/ Fired(a)
             /\ ~(InList(a) /\ Held(a))
             /\ ~(InList(a) /\ Fired(a))
             /\ ~(Held(a) /\ Fired(a))
    /\ NoDuplicates(List)
    /\ Len(List) <= MaxAlarms
    /\ Range(List) \subseteq heap

C3_Witness ==
    \E a, b \in AlarmIds :
        /\ InList(a) /\ Held(b)
        /\ Inserted(a) /\ Inserted(b)
        /\ a \in heap /\ b \in heap

\* C4 (as claimed): when the consumer prints an alarm, the clock has reached
\* the alarm's time.
C4_NotBeforeDeadline == (t_pc = "fire" /\ t_alarm # NULL) => clock >= time[t_alarm]

\* C5 (as claimed): the wait computed for the removed head is
\* max(0, alarm->time - now).
C5_WaitIsMaxZero ==
    (t_pc = "unlock" /\ t_alarm # NULL) => sleep_time = Max(0, time[t_alarm] - now)

\* C6 (as claimed): a new alarm lands after the listed alarms of equal time.
C6_FifoStable ==
    (m_pc = "unlock") =>
        \A b \in Range(List) :
            (b # m_alarm /\ time[b] = time[m_alarm]) => Pos(b) < Pos(m_alarm)

\* C6 (amended): a new alarm lands immediately before the first listed alarm
\* whose time is not earlier, so before every listed alarm of equal time; of
\* two alarms of equal time that were in the list together, the one submitted
\* later is dequeued first.
C6_NewBeforeEqual ==
    /\ (m_pc = "unlock") =>
          /\ InList(m_alarm)
          /\ \A b \in Range(List) :
                b # m_alarm =>
                   IF time[b] >= time[m_alarm]
                   THEN Pos(m_alarm) < Pos(b)
                   ELSE Pos(b) < Pos(m_alarm)
    /\ \A i, j \in 1..Len(dequeued) :
          (i < j /\ time[dequeued[i]] = time[dequeued[j]]
                 /\ dequeued[i] \notin goneAtInsert[dequeued[j]])
             => dequeued[i] > dequeued[j]

C6_Witness ==
    /\ Len(dequeued) = 2
    /\ time[dequeued[1]] = time[dequeued[2]]
    /\ dequeued[1] > dequeued[2]
    /\ goneAtInsert[dequeued[1]] = {}

\* C7: if A is printed after B although A's time is earlier, then A was linked
\* into the list only after the consumer had unlinked B; two alarms that were
\* in the list together are printed in order of time.
C7_OrderExceptStale ==
    \A i, j \in 1..Len(fired) :
        (i < j /\ time[fired[j]] < time[fired[i]])
           => fired[i] \in goneAtInsert[fired[j]]

C7_Witness ==
    /\ Len(fired) = 2
    /\ time[fired[2]] < time[fired[1]]
    /\ fired[1] \in goneAtInsert[fired[2]]

\* C8: while the consumer holds an unlinked alarm E, every step either leaves
\* E held, outside the list, with nothing further dequeued, or prints E; an
\* alarm linked meanwhile stays in the list.
C8_BoundedStaleness ==
    [][ \A e \in AlarmIds :
           Held(e) =>
              \/ /\ Held(e)'
                 /\ dequeued' = dequeued
                 /\ fired' = fired
                 /\ ~InList(e)'
                 /\ \A a \in AlarmIds : (InList(a) /\ e \in goneAtInsert[a]) => InList(a)'
              \/ /\ fired' = Append(fired, e)
                 /\ dequeued' = dequeued
                 /\ List' = List ]_vars

C8_Witness ==
    \E e, a \in AlarmIds :
        /\ Held(e) /\ t_pc = "fire"
        /\ InList(a)
        /\ e \in goneAtInsert[a]
        /\ time[a] < time[e]

\* C9: the consumer does not own alarm_mutex while it sleeps, yields or prints.
C9_NoLockWhileWaiting ==
    t_pc \in {"wait", "sleeping", "fire"} => alarm_mutex # "alarm_thread"

C9_Witness == t_pc = "sleeping" /\ sleep_left > 0 /\ alarm_mutex = "main"

\* a delay and a message, as the input protocol describes them
WellFormed(l) ==
    \E s \in 1..Len(l) : \E e \in s..Len(l) : \E m \in (e + 1)..Len(l) :
        /\ \A i \in s..e : IsDigit(l[i])
        /\ \A i \in 1..(s - 1) : IsSpace(l[i]) \/ (i = s - 1 /\ l[i] = "-")
        /\ \A i \in (e + 1)..(m - 1) : IsSpace(l[i])
        /\ ~IsDigit(l[e + 1])
        /\ ~IsSpace(l[m])

Malformed(l) == Len(l) > 1 /\ ~WellFormed(l)

\* C10: handling a malformed line reports "bad command", frees the alarm it
\* allocated, leaves the list and the mutex as they were and goes back to
\* reading; nothing is dequeued or printed for it, and no freed alarm is
\* listed or with the consumer.
C10_MalformedNoEffect ==
    /\ [][ (m_pc = "parse" /\ Malformed(line) /\ m_pc' # "parse" /\ proc' = "running")
             => /\ report' = "bad command"
                /\ m_pc' = "fgets"
                /\ List' = List
                /\ alarm_list' = alarm_list
                /\ link' = link
                /\ alarm_mutex' = alarm_mutex
                /\ heap' = heap
                /\ m_alarm' \notin heap'
                /\ dequeued' = dequeued
                /\ fired' = fired ]_vars
    /\ [](\A a \in AlarmIds : (InList(a) \/ Held(a)) => a \in heap)

C10_Witness ==
    /\ report = "bad command"
    /\ m_pc = "fgets"
    /\ m_alarm = 2
    /\ List = <<1>>
    /\ Len(fired) = 0

\* C11 (as claimed): once a lock or unlock of alarm_mutex has returned an
\* error, in either thread, the process is aborted and no thread runs on.
C11_FailureAborts == failed_call # {} => proc = "aborted"

\* C12 (as claimed): the message stored in an alarm, with its terminating
\* null byte, never takes more than the capacity of the message field.
C12_MessageFits == \A a \in AlarmIds : Len(message[a]) + 1 <= MsgCapacity

\* C13 (as claimed): an alarm whose parsed delay is negative is never put
\* into the list.
C13_NoNegativeDelayListed == \A a \in AlarmIds : InList(a) => seconds[a] >= 0

\* a line of spaces and the newline only
WhiteOnly(l) == \A i \in 1..Len(l) : IsSpace(l[i])

\* C14 (as claimed): when main has dealt with a line of white space only,
\* it has reported no error and the list and the allocations are as before.
C14_WhitespaceIgnored ==
    [][(m_pc = "parse" /\ WhiteOnly(line) /\ m_pc' # "parse")
         => (report' = "none" /\ List' = List /\ nalloc' = nalloc)]_vars

\* C15 (as claimed): an iteration of alarm_thread that found the list empty
\* has released the mutex and is about to sleep for exactly one second, with
\* nothing to print or free.
C15_EmptySleepsOne ==
    (t_pc = "wait" /\ t_alarm = NULL)
        => (alarm_mutex # "alarm_thread" /\ sleep_time = 1)

C17_DequeueHeadOnly ==
    /\ [][(t_pc = "take" /\ t_pc' = "unlock")
            => /\ alarm_mutex = "alarm_thread"
               /\ IF List = <<>>
                  THEN /\ List' = <<>>
                       /\ t_alarm' = NULL
                       /\ dequeued' = dequeued
                  ELSE /\ t_alarm' = Head(List)
                       /\ List' = Tail(List)
                       /\ dequeued' = Append(dequeued, Head(List))]_vars
    /\ [][(t_pc' # t_pc /\ t_pc # "take") => List' = List]_vars

\* alarm_thread has taken a head that is not yet due and left another alarm
\* in the list
C17_Witness ==
    /\ t_pc = "unlock" /\ t_alarm # NULL /\ time[t_alarm] > now
    /\ Len(List) = 1 /\ dequeued = <<t_alarm>>

\* alarm_thread holds an alarm that was due when it was dequeued
DueHeld ==
    /\ t_alarm # NULL /\ t_pc \in {"unlock", "wait", "sleeping", "fire"}
    /\ time[t_alarm] <= now

\* C18: an alarm that is due when it is dequeued (time <= now) has wait 0 and
\* is never slept on; from the wait alarm_thread goes by one sched_yield to the
\* printing, and the printing step of that iteration prints this alarm.
C18_DueFiresAtOnce ==
    /\ [](DueHeld => (sleep_time = 0 /\ t_pc # "sleeping"))
    /\ [][(DueHeld /\ t_pc = "wait" /\ t_pc' # t_pc)
            => (t_pc' = "fire" /\ t_alarm' = t_alarm /\ clock' = clock)]_vars
    /\ [][(DueHeld /\ t_pc = "fire" /\ t_pc' # t_pc)
            => (fired' = Append(fired, t_alarm) /\ t_pc' = "lock")]_vars

\* an alarm submitted with delay 0 has been dequeued when already due and
\* printed
C18_Witness ==
    /\ t_pc = "lock" /\ fired = <<1>> /\ seconds[1] = 0
    /\ time[1] <= now /\ sleep_time = 0

\* q with x put in after its first k items
InsertAt(q, x, k) == SubSeq(q, 1, k) \o <<x>> \o SubSeq(q, k + 1, Len(q))

InCriticalT == t_pc \in {"peek", "take", "unlock"}
InCriticalM == m_pc \in {"settime", "scan", "tail", "unlock"}

\* C20: a thread is between its lock and its unlock exactly when it owns
\* alarm_mutex, so the two threads are never there together, the list is read
\* and written by the owner only, and neither thread owns the mutex when it
\* sleeps, yields, prints, reads input or comes back to its lock; a step that
\* changes alarm_list or a link field is a step of the owner.
C20_MutualExclusion ==
    /\ [](InCriticalT <=> alarm_mutex = "alarm_thread")
    /\ [](InCriticalM <=> alarm_mutex = "main")
    /\ [](~(InCriticalT /\ InCriticalM))
    /\ [][(alarm_list' # alarm_list \/ link' # link)
            => IF tvars' # tvars
               THEN alarm_mutex = "alarm_thread" /\ mvars' = mvars
               ELSE alarm_mutex = "main" /\ mvars' # mvars]_vars

\* main is scanning a list that is not empty while alarm_thread, after an
\* iteration of its own, is back at its lock
C20_Witness ==
    /\ m_pc = "scan" /\ next # NULL /\ alarm_mutex = "main"
    /\ t_pc = "lock" /\ sleet_time = 1

====
